---- MODULE Spec2Model ----
(***************************************************************************)
(* Model of the YAGOO MCP server (src/src/index.ts): the scoring function  *)
(* scoreAgent and the five tool handlers yagoo_search, yagoo_get_agent,    *)
(* yagoo_list_categories, yagoo_compare and yagoo_list_mcp, run against an *)
(* in-memory catalog AGENTS and the mapping CATEGORY_LABELS.               *)
(*                                                                         *)
(* A JavaScript string is a sequence of one-character strings, so that     *)
(* includes, toLowerCase and split are computed character by character.    *)
(* An optional value is a sequence of length 0 (undefined) or 1.           *)
(***************************************************************************)
EXTENDS Integers, Sequences, FiniteSets, TLC

VARIABLES AGENTS, CATEGORY_LABELS, AGENTS0, LABELS0, pc, served, request, results, response

vars == <<AGENTS, CATEGORY_LABELS, AGENTS0, LABELS0, pc, served, request, results, response>>

(***************************************************************************)
(* Bounds of the model.                                                    *)
(***************************************************************************)
MaxSlugList == 3

MaxServed == 2

(***************************************************************************)
(* String primitives of JavaScript used by index.ts.                       *)
(***************************************************************************)
UpperLetters == <<"A","B","C","D","E","F","G","H","I","J","K","L","M","N","O","P","Q","R","S","T","U","V","W","X","Y","Z">>

LowerLetters == <<"a","b","c","d","e","f","g","h","i","j","k","l","m","n","o","p","q","r","s","t","u","v","w","x","y","z">>

\* the lower-case letter of every upper-case letter
LowerOf ==
  [c \in {UpperLetters[i] : i \in DOMAIN UpperLetters} |->
     LowerLetters[CHOOSE i \in DOMAIN UpperLetters : UpperLetters[i] = c]]

\* String.prototype.toLowerCase on one character
LowerChar(c) == IF c \in DOMAIN LowerOf THEN LowerOf[c] ELSE c

\* String.prototype.toLowerCase
toLowerCase(s) == [i \in DOMAIN s |-> LowerChar(s[i])]

\* String.prototype.includes: sub occurs in s as a contiguous run (the empty string always does)
includes(s, sub) ==
  \E i \in 0..(Len(s) - Len(sub)) : \A k \in 1..Len(sub) : s[i + k] = sub[k]

\* Array.prototype.includes
arrayIncludes(arr, x) == \E i \in DOMAIN arr : arr[i] = x

\* the characters the regular expression \s matches, among those the model uses
IsSpace(c) == c \in {" ", "\t", "\n"}

\* String.prototype.split(/\s+/): the pieces between maximal runs of whitespace,
\* with an empty piece before a leading run and after a trailing run
RECURSIVE SplitFrom(_, _, _, _)
SplitFrom(s, i, cur, acc) ==
  IF i > Len(s) THEN Append(acc, cur)
  ELSE IF IsSpace(s[i])
    THEN IF i > 1 /\ IsSpace(s[i - 1])
           THEN SplitFrom(s, i + 1, cur, acc)
           ELSE SplitFrom(s, i + 1, <<>>, Append(acc, cur))
    ELSE SplitFrom(s, i + 1, Append(cur, s[i]), acc)

split(s) == SplitFrom(s, 1, <<>>, <<>>)

\* Array.prototype.filter: the elements at the positions kept (those whose
\* element passes the callback), in their order in arr
filter(arr, kept) ==
  LET nth(k) == CHOOSE i \in kept : Cardinality({j \in kept : j < i}) = k - 1
  IN [k \in 1..Cardinality(kept) |-> arr[nth(k)]]

\* Array.prototype.slice(0, n)
slice0(arr, n) == SubSeq(arr, 1, IF n < Len(arr) THEN n ELSE Len(arr))

\* Array.prototype.find, as an optional value: the element at the first of the
\* positions hits (those whose element passes the callback)
find(arr, hits) ==
  IF hits = {} THEN <<>> ELSE <<arr[CHOOSE i \in hits : \A j \in hits : i <= j]>>

\* the number of pairs of an entry of xs and a word of ws that the entry contains
CountPairs(xs, ws) ==
  Cardinality({p \in (DOMAIN xs) \X (DOMAIN ws) : includes(xs[p[1]], ws[p[2]])})

\* the number of entries of xs that contain q
CountHits(xs, q) == Cardinality({i \in DOMAIN xs : includes(xs[i], q)})

(***************************************************************************)
(* CATEGORY_LABELS: an ordered mapping, modelled as a sequence of          *)
(* <<key, label>> pairs in insertion order.                                *)
(***************************************************************************)
labelKeys(labels) == [i \in DOMAIN labels |-> labels[i][1]]

\* CATEGORY_LABELS[key], as an optional value
labelOf(labels, key) ==
  IF \E i \in DOMAIN labels : labels[i][1] = key
    THEN <<labels[CHOOSE i \in DOMAIN labels : labels[i][1] = key][2]>>
    ELSE <<>>

(***************************************************************************)
(* scoreAgent                                                              *)
(***************************************************************************)
\* the query words: q.split(/\s+/).filter(w => w.length > 2)
queryWords(q) ==
  LET pieces == split(q)
  IN filter(pieces, {i \in DOMAIN pieces : Len(pieces[i]) > 2})

\* CATEGORY_LABELS[agent.primary_category]?.toLowerCase() || ''
categoryLabelLower(agent, labels) ==
  LET l == labelOf(labels, agent.primary_category)
  IN IF l = <<>> THEN <<>> ELSE toLowerCase(l[1])

nameScore(agent, q) == IF includes(toLowerCase(agent.name), q) THEN 50 ELSE 0

taglineScore(agent, q) == IF includes(toLowerCase(agent.tagline), q) THEN 30 ELSE 0

tagSubstringScore(agent, q) ==
  20 * Cardinality({i \in DOMAIN agent.tags :
                      includes(q, agent.tags[i]) \/ includes(agent.tags[i], q)})

tagWordScore(agent, words) == 10 * CountPairs(agent.tags, words)

\* the entries of a list of strings, each in lower case
allLower(arr) == [i \in DOMAIN arr |-> toLowerCase(arr[i])]

capabilityScore(agent, q, words) ==
  LET caps == allLower(agent.capabilities)
  IN 15 * CountHits(caps, q) + 5 * CountPairs(caps, words)

bestForFullScore(agent, q) == 25 * CountHits(allLower(agent.best_for), q)

\* bestForWordScore with the weight of a capability word
bestForWordScoreAsCapability(agent, words) ==
  5 * CountPairs(allLower(agent.best_for), words)

bestForWordScore(agent, words) == 8 * CountPairs(allLower(agent.best_for), words)

notIdealPenalty(agent, words) == 5 * CountPairs(allLower(agent.not_ideal_for), words)

categoryScore(agent, labels, words) ==
  10 * Cardinality({i \in DOMAIN words :
                   includes(categoryLabelLower(agent, labels), words[i])})

scoreAgent(agent, labels, query) ==
  LET q == toLowerCase(query)
      words == queryWords(q)
  IN nameScore(agent, q) + taglineScore(agent, q)
     + tagSubstringScore(agent, q) + tagWordScore(agent, words)
     + capabilityScore(agent, q, words)
     + bestForFullScore(agent, q) + bestForWordScore(agent, words)
     - notIdealPenalty(agent, words)
     + categoryScore(agent, labels, words)

(***************************************************************************)
(* The catalog (data.js): a pool of Agent records from which the catalogs  *)
(* of the model are drawn, and the category-label mapping.                 *)
(***************************************************************************)
Cursor ==
  [slug |-> <<"c","u","r","s","o","r">>, name |-> <<"C","u","r","s","o","r">>, tagline |-> <<"A","I"," ","e","d","i","t","o","r">>,
   url |-> "https://cursor.example",
   primary_category |-> "coding", secondary_categories |-> <<>>,
   pricing_model |-> "freemium", pricing_details |-> "Free tier, Pro plan",
   autonomy_level |-> "copilot",
   mcp_support |-> TRUE, mcp_config |-> <<>>,
   tags |-> <<<<"i","d","e">>>>,
   capabilities |-> <<<<"C","o","m","p","l","e","t","i","o","n">>>>,
   best_for |-> <<<<"E","d","i","t","i","n","g">>, <<"R","e","f","a","c","t","o","r">>, <<"R","e","v","i","e","w">>, <<"P","a","i","r","i","n","g">>>>,
   limitations |-> <<<<"P","a","i","d">>, <<"C","l","o","s","e","d">>, <<"D","e","s","k","t","o","p">>>>,
   not_ideal_for |-> <<<<"S","c","r","a","p","i","n","g"," ","w","e","b","s","i","t","e","s">>>>]

Firecrawl ==
  [slug |-> <<"f","i","r","e","c","r","a","w","l">>, name |-> <<"F","i","r","e","c","r","a","w","l">>, tagline |-> <<"S","i","t","e","s"," ","t","o"," ","d","a","t","a">>,
   url |-> "https://firecrawl.example",
   primary_category |-> "data", secondary_categories |-> <<"coding">>,
   pricing_model |-> "open_source", pricing_details |-> "Self-hosted",
   autonomy_level |-> "fully_autonomous",
   mcp_support |-> TRUE,
   mcp_config |-> <<[command |-> "npx", args |-> <<"-y", "firecrawl-mcp">>,
                     env |-> <<"FIRECRAWL_API_KEY">>, description |-> <<"Firecrawl MCP">>]>>,
   tags |-> <<<<"w","e","b","-","s","c","r","a","p","i","n","g">>>>,
   capabilities |-> <<<<"C","r","a","w","l","i","n","g">>>>,
   best_for |-> <<<<"s","c","r","a","p","i","n","g"," ","w","e","b","s","i","t","e","s"," ","a","t"," ","s","c","a","l","e">>>>,
   limitations |-> <<>>,
   not_ideal_for |-> <<>>]

ScrapeBot ==
  [slug |-> <<"s","c","r","a","p","e","b","o","t">>, name |-> <<"S","c","r","a","p","e","B","o","t">>, tagline |-> <<"H","o","s","t","e","d"," ","A","I"," ","s","c","r","a","p","e","r">>,
   url |-> "https://scrapebot.example",
   primary_category |-> "data", secondary_categories |-> <<>>,
   pricing_model |-> "paid", pricing_details |-> "Per request",
   autonomy_level |-> "tool",
   mcp_support |-> FALSE,
   mcp_config |-> <<[command |-> "scrapebot", args |-> <<>>, env |-> <<>>, description |-> <<>>]>>,
   tags |-> <<<<"w","e","b","-","s","c","r","a","p","i","n","g">>>>,
   capabilities |-> <<<<"P","r","o","x","i","e","s">>>>,
   best_for |-> <<<<"s","c","r","a","p","i","n","g"," ","w","e","b","s","i","t","e","s"," ","a","t"," ","s","c","a","l","e">>>>,
   limitations |-> <<<<"R","a","t","e"," ","l","i","m","i","t","s">>>>,
   not_ideal_for |-> <<<<"S","t","a","t","i","c"," ","w","e","b","s","i","t","e","s">>, <<"s","i","m","p","l","e"," ","w","e","b","s","i","t","e","s">>>>]

Aider ==
  [slug |-> <<"a","i","d","e","r">>, name |-> <<"A","i","d","e","r">>, tagline |-> <<"P","a","i","r"," ","p","r","o","g","r","a","m","m","i","n","g">>,
   url |-> "https://aider.example",
   primary_category |-> "coding", secondary_categories |-> <<"data">>,
   pricing_model |-> "open_source", pricing_details |-> "Free",
   autonomy_level |-> "semi_autonomous",
   mcp_support |-> TRUE,
   mcp_config |-> <<[command |-> "aider", args |-> <<"--mcp">>, env |-> <<>>, description |-> <<>>]>>,
   tags |-> <<<<"c","l","i">>, <<"s","c","r","a","p","e">>>>,
   capabilities |-> <<<<"G","i","t"," ","e","d","i","t","s">>>>,
   best_for |-> <<<<"T","e","r","m","i","n","a","l">>>>,
   limitations |-> <<<<"A","P","I"," ","k","e","y">>>>,
   not_ideal_for |-> <<>>]

AgentPool == {Cursor, Firecrawl, ScrapeBot, Aider}

Labels ==
  << <<"coding", <<"C","o","d","i","n","g"," ","&"," ","D","e","v">>>>,
     <<"data", <<"D","a","t","a"," ","&"," ","R","e","s","e","a","r","c","h">>>>,
     <<"creative", <<"C","r","e","a","t","i","v","e">>>>,
     <<"voice", <<"V","o","i","c","e">>>> >>

\* what data.js guarantees of the catalog: slugs are unique, and every
\* primary_category is a key of the category-label mapping
CatalogInvariant(agents, labels) ==
  /\ \A i, j \in DOMAIN agents : agents[i].slug = agents[j].slug => i = j
  /\ \A i \in DOMAIN agents : arrayIncludes(labelKeys(labels), agents[i].primary_category)

\* the catalogs of the model: every arrangement of agents of the pool
Catalogs ==
  {c \in UNION {[1..n -> AgentPool] : n \in 0..Cardinality(AgentPool)} :
     CatalogInvariant(c, Labels)}

(***************************************************************************)
(* Input schemas (zod).                                                    *)
(***************************************************************************)
QueryMinLen == 2

QueryMaxLen == 500

LimitMin == 1

LimitMax == 20

LimitDefault == 5

SlugMinLen == 1

CompareMinSlugs == 2

CompareMaxSlugs == 5

SearchInputSchema(p) ==
  /\ Len(p.query) >= QueryMinLen /\ Len(p.query) <= QueryMaxLen
  /\ p.limit # <<>> => (p.limit[1] >= LimitMin /\ p.limit[1] <= LimitMax)

\* the parsed search parameters: limit takes its default when it is not given
SearchParsed(p) ==
  [p EXCEPT !.limit = IF p.limit = <<>> THEN LimitDefault ELSE p.limit[1]]

GetAgentInputSchema(p) == Len(p.slug) >= SlugMinLen

CompareInputSchema(p) ==
  Len(p.slugs) >= CompareMinSlugs /\ Len(p.slugs) <= CompareMaxSlugs

\* JavaScript truthiness of an optional string: given and not empty
truthy(opt) == opt # <<>> /\ opt[1] # ""

(***************************************************************************)
(* yagoo_search                                                            *)
(***************************************************************************)
matchesCategory(a, cat) ==
  a.primary_category = cat \/ arrayIncludes(a.secondary_categories, cat)

\* the positions of the agents of a list in the category
inCategory(agents, cat) == {i \in DOMAIN agents : matchesCategory(agents[i], cat)}

\* the positions of the agents of a list with the pricing model
withPricing(agents, pricing) == {i \in DOMAIN agents : agents[i].pricing_model = pricing}

\* filterAgents with the pricing filter applied to the catalog instead of the
\* category-filtered list
filterAgentsPricingOfCatalog(agents, category, pricing) ==
  LET filtered == IF truthy(category) THEN filter(agents, inCategory(agents, category[1]))
                  ELSE agents
  IN IF truthy(pricing) THEN filter(agents, withPricing(agents, pricing[1])) ELSE filtered

\* the category filter and then the pricing filter, each applied only to a truthy parameter
filterAgents(agents, category, pricing) ==
  LET filtered == IF truthy(category) THEN filter(agents, inCategory(agents, category[1]))
                  ELSE agents
  IN IF truthy(pricing) THEN filter(filtered, withPricing(filtered, pricing[1])) ELSE filtered

\* filtered.map(agent => ({agent, score: scoreAgent(agent, params.query)}))
scoreItems(filtered, labels, query) ==
  [i \in DOMAIN filtered |->
     [agent |-> filtered[i], score |-> scoreAgent(filtered[i], labels, query)]]

\* scoreAll keeping the items with score >= 0
scoreAllNonNegative(filtered, labels, query) ==
  LET items == scoreItems(filtered, labels, query)
  IN filter(items, {i \in DOMAIN items : items[i].score >= 0})

\* filtered.map(...).filter(item => item.score > 0)
scoreAll(filtered, labels, query) ==
  LET items == scoreItems(filtered, labels, query)
  IN filter(items, {i \in DOMAIN items : items[i].score > 0})

\* sortByScore with the comparator reversed: (a, b) => a.score - b.score
sortByScoreAscending(scored) ==
  LET before(i) == {j \in DOMAIN scored :
                      \/ scored[j].score < scored[i].score
                      \/ scored[j].score = scored[i].score /\ j < i}
      at(k) == CHOOSE i \in DOMAIN scored : Cardinality(before(i)) = k - 1
  IN [k \in DOMAIN scored |-> scored[at(k)]]

\* sortByScore by a sort that is not stable: items of the same score come out
\* in the reverse of their order in scored
sortByScoreTiesReversed(scored) ==
  LET before(i) == {j \in DOMAIN scored :
                      \/ scored[j].score > scored[i].score
                      \/ scored[j].score = scored[i].score /\ j > i}
      at(k) == CHOOSE i \in DOMAIN scored : Cardinality(before(i)) = k - 1
  IN [k \in DOMAIN scored |-> scored[at(k)]]

\* scored.sort((a, b) => b.score - a.score): Array.prototype.sort is stable,
\* so an item goes after the items that score more and the earlier items that score the same
sortByScore(scored) ==
  LET before(i) == {j \in DOMAIN scored :
                      \/ scored[j].score > scored[i].score
                      \/ scored[j].score = scored[i].score /\ j < i}
      at(k) == CHOOSE i \in DOMAIN scored : Cardinality(before(i)) = k - 1
  IN [k \in DOMAIN scored |-> scored[at(k)]]

\* rankAgents with the slice one entry too long
rankAgentsOffByOne(filtered, labels, query, limit) ==
  slice0(sortByScore(scoreAll(filtered, labels, query)), limit + 1)

\* scored.slice(0, params.limit), after the sort
rankAgents(filtered, labels, query, limit) ==
  slice0(sortByScore(scoreAll(filtered, labels, query)), limit)

\* one entry of the result listing
searchEntry(i, agent) ==
  [rank |-> i, name |-> agent.name, tagline |-> agent.tagline,
   why |-> slice0(agent.best_for, 2),
   watch |-> IF agent.limitations = <<>> THEN <<<<"N","o"," ","m","a","j","o","r"," ","l","i","m","i","t","a","t","i","o","n","s"," ","n","o","t","e","d">>>>
             ELSE <<agent.limitations[1]>>,
   pricing |-> <<agent.pricing_model, agent.pricing_details>>,
   url |-> agent.url,
   mcp |-> IF agent.mcp_support /\ agent.mcp_config # <<>>
           THEN <<agent.mcp_config[1].command, agent.mcp_config[1].args>> ELSE <<>>]

searchText(ranked, query) ==
  IF Len(ranked) = 0
    THEN [kind |-> "no_agents_found", query |-> query]
    ELSE [kind |-> "search_results", query |-> query, found |-> Len(ranked),
          entries |-> [i \in DOMAIN ranked |-> searchEntry(i, ranked[i].agent)]]

\* searchHandler sorting the catalog itself by score, as AGENTS.sort would
searchHandlerSortsCatalog(agents, labels, params) ==
  LET filtered == filterAgents(agents, params.category, params.pricing)
      ranked == rankAgents(filtered, labels, params.query, params.limit)
      sorted == sortByScore(scoreItems(agents, labels, params.query))
  IN [AGENTS |-> [i \in DOMAIN sorted |-> sorted[i].agent],
      results |-> ranked, response |-> searchText(ranked, params.query)]

\* the handler: the catalog it leaves, the ranked list and the response. The
\* only in-place operation, sort, acts on the handler's own array scored.
searchHandler(agents, labels, params) ==
  LET filtered == filterAgents(agents, params.category, params.pricing)
      ranked == rankAgents(filtered, labels, params.query, params.limit)
  IN [AGENTS |-> agents, results |-> ranked, response |-> searchText(ranked, params.query)]

(***************************************************************************)
(* yagoo_get_agent                                                         *)
(***************************************************************************)
MaxSuggestions == 3

\* JSON.stringify({command, args, ...(env && {env})}) and the description line
mcpBlock(config) ==
  [command |-> config.command, args |-> config.args, env |-> config.env,
   description |-> config.description]

formatAgentDetail(agent, labels) ==
  [kind |-> "agent_detail",
   name |-> agent.name, tagline |-> agent.tagline, url |-> agent.url,
   category |-> IF labelOf(labels, agent.primary_category) # <<>>
                  /\ labelOf(labels, agent.primary_category)[1] # <<>>
                THEN labelOf(labels, agent.primary_category)
                ELSE <<agent.primary_category>>,
   pricing |-> <<agent.pricing_model, agent.pricing_details>>,
   autonomy |-> agent.autonomy_level,
   mcp_support |-> agent.mcp_support,
   mcp |-> IF agent.mcp_support /\ agent.mcp_config # <<>>
           THEN <<mcpBlock(agent.mcp_config[1])>> ELSE <<>>,
   best_for |-> agent.best_for, capabilities |-> agent.capabilities,
   limitations |-> agent.limitations, not_ideal_for |-> agent.not_ideal_for]

\* suggestSlugs comparing the name with the slug as given, not lower-cased
suggestSlugsCaseSensitive(agents, slug) ==
  LET close == {i \in DOMAIN agents :
                  includes(agents[i].slug, slug) \/ includes(toLowerCase(agents[i].name), slug)}
      candidates == slice0(filter(agents, close), MaxSuggestions)
  IN [i \in DOMAIN candidates |-> candidates[i].slug]

suggestSlugs(agents, slug) ==
  LET close == {i \in DOMAIN agents :
                  \/ includes(agents[i].slug, slug)
                  \/ includes(toLowerCase(agents[i].name), toLowerCase(slug))}
      candidates == slice0(filter(agents, close), MaxSuggestions)
  IN [i \in DOMAIN candidates |-> candidates[i].slug]

\* AGENTS.find(a => a.slug === slug), as an optional value
findBySlug(agents, slug) == find(agents, {i \in DOMAIN agents : agents[i].slug = slug})

getAgentHandler(agents, labels, params) ==
  LET agent == findBySlug(agents, params.slug)
  IN IF agent = <<>>
       THEN [kind |-> "agent_not_found", slug |-> params.slug,
             suggestions |-> suggestSlugs(agents, params.slug)]
       ELSE formatAgentDetail(agent[1], labels)

(***************************************************************************)
(* yagoo_list_categories                                                   *)
(***************************************************************************)
\* categoryCount counting an agent for its secondary categories too
categoryCountWithSecondary(agents, key) ==
  Cardinality({i \in DOMAIN agents :
                 agents[i].primary_category = key
                   \/ arrayIncludes(agents[i].secondary_categories, key)})

\* categoryCounts[key] || 0, after the counting loop over AGENTS
categoryCount(agents, key) ==
  Cardinality({i \in DOMAIN agents : agents[i].primary_category = key})

listCategoriesHandler(agents, labels) ==
  [kind |-> "categories",
   total |-> Len(agents),
   across |-> Cardinality({agents[i].primary_category : i \in DOMAIN agents}),
   lines |-> [i \in DOMAIN labels |->
                [label |-> labels[i][2], slug |-> labels[i][1],
                 count |-> categoryCount(agents, labels[i][1])]]]

(***************************************************************************)
(* yagoo_compare                                                           *)
(***************************************************************************)
\* the loop over params.slugs: the agents found, in input order
resolved(agents, slugs) ==
  LET found == filter(slugs, {i \in DOMAIN slugs : findBySlug(agents, slugs[i]) # <<>>})
  IN [i \in DOMAIN found |-> findBySlug(agents, found[i])[1]]

\* the loop over params.slugs: the slugs with no agent, in input order
notFound(agents, slugs) ==
  filter(slugs, {i \in DOMAIN slugs : findBySlug(agents, slugs[i]) = <<>>})

\* the name of the first of the agents at the positions picks, as an optional value
firstName(found, picks) ==
  LET a == find(found, picks) IN IF a = <<>> THEN <<>> ELSE <<a[1].name>>

comparison(found) ==
  [kind |-> "comparison",
   title |-> [i \in DOMAIN found |-> found[i].name],
   pricing |-> [i \in DOMAIN found |->
                  <<found[i].name, found[i].pricing_model, found[i].pricing_details>>],
   autonomy |-> [i \in DOMAIN found |-> <<found[i].name, found[i].autonomy_level>>],
   best_for |-> [i \in DOMAIN found |-> <<found[i].name, slice0(found[i].best_for, 3)>>],
   watch_out |-> [i \in DOMAIN found |-> <<found[i].name, slice0(found[i].limitations, 2)>>],
   budget |-> firstName(found, {i \in DOMAIN found :
                found[i].pricing_model \in {"free", "open_source", "freemium"}}),
   autonomous |-> firstName(found, {i \in DOMAIN found :
                    found[i].autonomy_level = "fully_autonomous"}),
   mcp |-> firstName(found, {i \in DOMAIN found : found[i].mcp_support})]

\* compareHandler comparing the agents found whenever there are two of them
compareHandlerPartial(agents, params) ==
  LET found == resolved(agents, params.slugs)
      missing == notFound(agents, params.slugs)
  IN IF Len(found) >= 2 THEN comparison(found)
     ELSE IF Len(missing) > 0 THEN [kind |-> "agents_not_found", slugs |-> missing]
     ELSE [kind |-> "need_two_agents"]

\* compareHandler testing the number of agents found before the slugs not found
compareHandlerCountFirst(agents, params) ==
  LET found == resolved(agents, params.slugs)
      missing == notFound(agents, params.slugs)
  IN IF Len(found) < 2 THEN [kind |-> "need_two_agents"]
     ELSE IF Len(missing) > 0 THEN [kind |-> "agents_not_found", slugs |-> missing]
     ELSE comparison(found)

compareHandler(agents, params) ==
  LET found == resolved(agents, params.slugs)
      missing == notFound(agents, params.slugs)
  IN IF Len(missing) > 0 THEN [kind |-> "agents_not_found", slugs |-> missing]
     ELSE IF Len(found) < 2 THEN [kind |-> "need_two_agents"]
     ELSE comparison(found)

(***************************************************************************)
(* yagoo_list_mcp                                                          *)
(***************************************************************************)
listMcpHandler(agents) ==
  LET mcpAgents == filter(agents, {i \in DOMAIN agents :
                                     agents[i].mcp_support /\ agents[i].mcp_config # <<>>})
  IN [kind |-> "mcp_agents", count |-> Len(mcpAgents),
      entries |-> [i \in DOMAIN mcpAgents |->
                     [name |-> mcpAgents[i].name, tagline |-> mcpAgents[i].tagline,
                      connection |-> mcpBlock(mcpAgents[i].mcp_config[1])]]]

(***************************************************************************)
(* The requests of the model.                                              *)
(***************************************************************************)
Queries ==
  {<<"s","c","r","a","p","e"," ","w","e","b","s","i","t","e","s">>, <<"C","U","R","S","O","R">>, <<"c","o","d","i","n","g">>, <<"a","i">>, <<" ","w","e","b"," "," ","s","c","r","a","p","i","n","g"," ">>, <<"x">>}

CategoryValues == {<<>>, <<"">>, <<"coding">>, <<"bogus">>}

PricingValues == {<<>>, <<"">>, <<"open_source">>}

LimitValues ==
  {<<>>} \cup {<<n>> : n \in {LimitMin - 1, LimitMin, LimitMin + 1, LimitMax, LimitMax + 1}}

SearchInputs ==
  [query : Queries, category : CategoryValues, pricing : PricingValues, limit : LimitValues]

SlugValues == {<<"c","u","r","s","o","r">>, <<"c","u","r","s","o">>, <<"C","U","R","S","O">>, <<"r">>, <<"z","z","z">>, <<>>}

GetAgentInputs == [slug : SlugValues]

CompareSlugs == {<<"c","u","r","s","o","r">>, <<"f","i","r","e","c","r","a","w","l">>, <<"m","i","s","s","i","n","g">>}

CompareInputs ==
  [slugs : UNION {[1..n -> CompareSlugs] : n \in 0..MaxSlugList}
           \cup {<<<<"c","u","r","s","o","r">>, <<"n","o","p","e">>, <<"f","i","r","e","c","r","a","w","l">>, <<"m","i","s","s","i","n","g">>, <<"c","u","r","s","o","r">>>>,
                 <<<<"c","u","r","s","o","r">>, <<"f","i","r","e","c","r","a","w","l">>, <<"c","u","r","s","o","r">>, <<"f","i","r","e","c","r","a","w","l">>, <<"c","u","r","s","o","r">>>>,
                 <<<<"c","u","r","s","o","r">>, <<"f","i","r","e","c","r","a","w","l">>, <<"c","u","r","s","o","r">>, <<"f","i","r","e","c","r","a","w","l">>, <<"c","u","r","s","o","r">>, <<"f","i","r","e","c","r","a","w","l">>>>}]

NoRequest == [tool |-> "none"]

NoResponse == [kind |-> "none"]

(***************************************************************************)
(* The server: it holds the catalog loaded at start, validates each tool   *)
(* call against the tool's schema, runs the handler and returns its text.  *)
(***************************************************************************)
Init ==
  /\ AGENTS \in Catalogs
  /\ CATEGORY_LABELS = Labels
  /\ AGENTS0 = AGENTS
  /\ LABELS0 = CATEGORY_LABELS
  /\ pc = "idle"
  /\ served = 0
  /\ request = NoRequest
  /\ results = <<>>
  /\ response = NoResponse

yagoo_search ==
  /\ pc = "idle" /\ served < MaxServed
  /\ \E p \in SearchInputs :
       /\ SearchInputSchema(p)
       /\ LET out == searchHandler(AGENTS, CATEGORY_LABELS, SearchParsed(p))
          IN /\ AGENTS' = out.AGENTS
             /\ results' = out.results
             /\ response' = out.response
       /\ request' = [tool |-> "yagoo_search", params |-> p]
  /\ pc' = "responded"
  /\ UNCHANGED <<CATEGORY_LABELS, AGENTS0, LABELS0, served>>

yagoo_get_agent ==
  /\ pc = "idle" /\ served < MaxServed
  /\ \E p \in GetAgentInputs :
       /\ GetAgentInputSchema(p)
       /\ response' = getAgentHandler(AGENTS, CATEGORY_LABELS, p)
       /\ request' = [tool |-> "yagoo_get_agent", params |-> p]
  /\ pc' = "responded"
  /\ results' = <<>>
  /\ UNCHANGED <<AGENTS, CATEGORY_LABELS, AGENTS0, LABELS0, served>>

yagoo_list_categories ==
  /\ pc = "idle" /\ served < MaxServed
  /\ response' = listCategoriesHandler(AGENTS, CATEGORY_LABELS)
  /\ request' = [tool |-> "yagoo_list_categories"]
  /\ pc' = "responded"
  /\ results' = <<>>
  /\ UNCHANGED <<AGENTS, CATEGORY_LABELS, AGENTS0, LABELS0, served>>

yagoo_compare ==
  /\ pc = "idle" /\ served < MaxServed
  /\ \E p \in CompareInputs :
       /\ CompareInputSchema(p)
       /\ response' = compareHandler(AGENTS, p)
       /\ request' = [tool |-> "yagoo_compare", params |-> p]
  /\ pc' = "responded"
  /\ results' = <<>>
  /\ UNCHANGED <<AGENTS, CATEGORY_LABELS, AGENTS0, LABELS0, served>>

yagoo_list_mcp ==
  /\ pc = "idle" /\ served < MaxServed
  /\ response' = listMcpHandler(AGENTS)
  /\ request' = [tool |-> "yagoo_list_mcp"]
  /\ pc' = "responded"
  /\ results' = <<>>
  /\ UNCHANGED <<AGENTS, CATEGORY_LABELS, AGENTS0, LABELS0, served>>

\* a call whose arguments fail the tool's schema never reaches the handler
RejectInput ==
  /\ pc = "idle" /\ served < MaxServed
  /\ \/ \E p \in SearchInputs :
          ~SearchInputSchema(p) /\ request' = [tool |-> "yagoo_search", params |-> p]
     \/ \E p \in GetAgentInputs :
          ~GetAgentInputSchema(p) /\ request' = [tool |-> "yagoo_get_agent", params |-> p]
     \/ \E p \in CompareInputs :
          ~CompareInputSchema(p) /\ request' = [tool |-> "yagoo_compare", params |-> p]
  /\ response' = [kind |-> "invalid_params"]
  /\ pc' = "responded"
  /\ results' = <<>>
  /\ UNCHANGED <<AGENTS, CATEGORY_LABELS, AGENTS0, LABELS0, served>>

\* the response is sent and the server waits for the next call
Return ==
  /\ pc = "responded"
  /\ pc' = "idle"
  /\ served' = served + 1
  /\ request' = NoRequest
  /\ response' = NoResponse
  /\ results' = <<>>
  /\ UNCHANGED <<AGENTS, CATEGORY_LABELS, AGENTS0, LABELS0>>

Next ==
  \/ yagoo_search
  \/ yagoo_get_agent
  \/ yagoo_list_categories
  \/ yagoo_compare
  \/ yagoo_list_mcp
  \/ RejectInput
  \/ Return

Spec == Init /\ [][Next]_vars

(***************************************************************************)
(* Properties.                                                             *)
(***************************************************************************)
\* a call of the tool passed its schema and the handler has answered
Answered(tool) ==
  pc = "responded" /\ request.tool = tool /\ response.kind # "invalid_params"

\* the limit the search handler sees
GivenLimit == IF request.params.limit = <<>> THEN LimitDefault ELSE request.params.limit[1]

\* the score of the catalog's i-th agent for the query of the request
ScoreOf(i) == scoreAgent(AGENTS[i], CATEGORY_LABELS, request.params.query)

\* the k-th smallest element of a set of indices
Kth(S, k) == CHOOSE i \in S : Cardinality({j \in S : j < i}) = k - 1

\* C1: the (agent, score) pairs that search ranks are sorted non-increasing by
\* score, every one has a score > 0, and the score is scoreAgent's for the query
C1_RankedSortedPositive ==
  Answered("yagoo_search") =>
    /\ \A i \in DOMAIN results :
         /\ results[i].score > 0
         /\ results[i].score =
              scoreAgent(results[i].agent, CATEGORY_LABELS, request.params.query)
    /\ \A i \in DOMAIN results : \A j \in DOMAIN results :
         i < j => results[i].score >= results[j].score

\* a search whose ranking puts a later catalog agent, scoring more, before an earlier one
C1_Witness ==
  /\ Answered("yagoo_search")
  /\ Len(results) >= 2
  /\ results[1].score > results[2].score
  /\ \E i \in DOMAIN AGENTS : \E j \in DOMAIN AGENTS :
       i < j /\ AGENTS[j] = results[1].agent /\ AGENTS[i] = results[2].agent

\* the positions of the compare request's slugs that no catalog agent has as its slug
Unresolved ==
  {i \in DOMAIN request.params.slugs :
     \A k \in DOMAIN AGENTS : AGENTS[k].slug # request.params.slugs[i]}

\* C2: when a slug of compare is unresolved, the response lists exactly the
\* unresolved slugs, in input order, and has no comparison section
C2_UnresolvedAbortsComparison ==
  (Answered("yagoo_compare") /\ Unresolved # {}) =>
    /\ response.kind = "agents_not_found"
    /\ DOMAIN response = {"kind", "slugs"}
    /\ Len(response.slugs) = Cardinality(Unresolved)
    /\ \A k \in DOMAIN response.slugs :
         response.slugs[k] = request.params.slugs[Kth(Unresolved, k)]

\* a comparison of five slugs, two of them resolved and two distinct ones not
C2_Witness ==
  /\ Answered("yagoo_compare")
  /\ request.params.slugs = <<<<"c","u","r","s","o","r">>, <<"n","o","p","e">>, <<"f","i","r","e","c","r","a","w","l">>, <<"m","i","s","s","i","n","g">>, <<"c","u","r","s","o","r">>>>
  /\ Cardinality(Unresolved) = 2
  /\ response.kind = "agents_not_found"
  /\ response.slugs = <<<<"n","o","p","e">>, <<"m","i","s","s","i","n","g">>>>

\* C3 as stated: fewer than 2 resolved slugs give the minimum-count message
C3_FewerThanTwoGivesMinimumCount ==
  (Answered("yagoo_compare")
     /\ Len(request.params.slugs) - Cardinality(Unresolved) < 2) =>
    response.kind = "need_two_agents"

\* C3, amended: with fewer than 2 resolved slugs among the 2 to 5 given, compare
\* answers with the list of unresolved slugs; it never gives the minimum-count message
C3_FewerThanTwoGivesNotFound ==
  Answered("yagoo_compare") =>
    /\ response.kind # "need_two_agents"
    /\ Len(request.params.slugs) - Cardinality(Unresolved) < 2 =>
         response.kind = "agents_not_found"

\* a comparison of which exactly one slug resolves
C3_Witness ==
  /\ Answered("yagoo_compare")
  /\ Len(request.params.slugs) - Cardinality(Unresolved) = 1
  /\ response.kind = "agents_not_found"

\* the catalog positions whose agent passes the filters of the request, category
\* being applied when byCategory holds and pricing when byPricing holds
Passing(byCategory, byPricing) ==
  {i \in DOMAIN AGENTS :
     /\ byCategory =>
          \/ AGENTS[i].primary_category = request.params.category[1]
          \/ \E k \in DOMAIN AGENTS[i].secondary_categories :
               AGENTS[i].secondary_categories[k] = request.params.category[1]
     /\ byPricing =>
          AGENTS[i].pricing_model = request.params.pricing[1]}

\* the catalog positions that pass the filters given as strings, whatever the strings
PassingGiven == Passing(request.params.category # <<>>, request.params.pricing # <<>>)

\* the catalog positions that pass the filters given as non-empty strings
PassingNonEmpty ==
  Passing(request.params.category \notin {<<>>, <<"">>},
          request.params.pricing \notin {<<>>, <<"">>})

\* the ranked agents are among the catalog positions S, all of S that score > 0
\* are ranked unless the limit cut the list, and an empty S gives the zero-results message
NarrowsTo(S) ==
  /\ \A k \in DOMAIN results : \E i \in S : AGENTS[i] = results[k].agent
  /\ Len(results) < GivenLimit =>
       \A i \in S : ScoreOf(i) > 0 => \E k \in DOMAIN results : results[k].agent = AGENTS[i]
  /\ S = {} => response.kind = "no_agents_found"

\* C4 as stated: any string passed as category or pricing narrows the search
C4_AnyFilterValueNarrows ==
  Answered("yagoo_search") => NarrowsTo(PassingGiven)

\* C4, amended: a non-empty category or pricing narrows the search to the agents
\* that match it (category: primary or secondary; both filters: AND), an unmatched
\* one gives the zero-results message; an empty string is treated as not given
C4_NonEmptyFilterNarrows ==
  Answered("yagoo_search") => NarrowsTo(PassingNonEmpty)

\* an unknown category empties a search that would otherwise rank an agent
C4_Witness ==
  /\ Answered("yagoo_search")
  /\ request.params.category = <<"bogus">>
  /\ \E i \in DOMAIN AGENTS : ScoreOf(i) > 0
  /\ response.kind = "no_agents_found"
  /\ results = <<>>

\* the catalog positions whose agent get_agent may suggest for a slug
Suggestable(slug) ==
  {i \in DOMAIN AGENTS :
     \/ includes(AGENTS[i].slug, slug)
     \/ includes(toLowerCase(AGENTS[i].name), toLowerCase(slug))}

\* C5: get_agent gives a profile only of the agent with exactly the given slug; on
\* a miss it suggests the first 3 agents, in catalog order, whose slug contains
\* the given slug or whose lower-cased name contains it lower-cased
C5_ExactLookupAndSuggestions ==
  Answered("yagoo_get_agent") =>
    LET slug == request.params.slug
        exact == {i \in DOMAIN AGENTS : AGENTS[i].slug = slug}
        near == Suggestable(slug)
    IN /\ response.kind \in {"agent_detail", "agent_not_found"}
       /\ response.kind = "agent_detail" <=> exact # {}
       /\ response.kind = "agent_detail" =>
            \E i \in exact : response = formatAgentDetail(AGENTS[i], CATEGORY_LABELS)
       /\ response.kind = "agent_not_found" =>
            /\ Len(response.suggestions) <= 3
            /\ Len(response.suggestions) =
                 (IF Cardinality(near) < 3 THEN Cardinality(near) ELSE 3)
            /\ \A k \in DOMAIN response.suggestions :
                 response.suggestions[k] = AGENTS[Kth(near, k)].slug
            /\ (slug = <<"c","u","r","s","o">> /\ \E i \in DOMAIN AGENTS : AGENTS[i].slug = <<"c","u","r","s","o","r">>) =>
                 \E k \in DOMAIN response.suggestions : response.suggestions[k] = <<"c","u","r","s","o","r">>

\* a miss with four candidates, of which the first three of the catalog are suggested
C5_Witness ==
  /\ Answered("yagoo_get_agent")
  /\ response.kind = "agent_not_found"
  /\ Cardinality(Suggestable(request.params.slug)) = 4
  /\ Len(response.suggestions) = 3

\* the sum of the count fields of a list of lines
RECURSIVE SumCounts(_)
SumCounts(lines) ==
  IF lines = <<>> THEN 0 ELSE Head(lines).count + SumCounts(Tail(lines))

\* C6: list_categories lists every key of the label mapping, in mapping order,
\* with the number of agents that have it as primary category, and the counts
\* sum to the catalog size
C6_CategoryCountsSumToCatalog ==
  Answered("yagoo_list_categories") =>
    /\ SumCounts(response.lines) = Len(AGENTS)
    /\ Len(response.lines) = Len(CATEGORY_LABELS)
    /\ \A i \in DOMAIN response.lines :
         /\ response.lines[i].slug = CATEGORY_LABELS[i][1]
         /\ response.lines[i].count =
              Cardinality({k \in DOMAIN AGENTS :
                             AGENTS[k].primary_category = CATEGORY_LABELS[i][1]})

\* a listing with an empty category and an agent whose secondary category is
\* the primary category of another agent
C6_Witness ==
  /\ Answered("yagoo_list_categories")
  /\ \E i \in DOMAIN response.lines : response.lines[i].count = 0
  /\ \E i \in DOMAIN AGENTS : \E j \in DOMAIN AGENTS :
       arrayIncludes(AGENTS[i].secondary_categories, AGENTS[j].primary_category)
  /\ Len(AGENTS) >= 3

\* the agent of the scoring example: tag "web-scraping", best_for "scraping websites at scale"
ScrapeExample(a) ==
  arrayIncludes(a.tags, <<"w","e","b","-","s","c","r","a","p","i","n","g">>)
    /\ arrayIncludes(a.best_for, <<"s","c","r","a","p","i","n","g"," ","w","e","b","s","i","t","e","s"," ","a","t"," ","s","c","a","l","e">>)

\* a list without the entries equal to x
Without(arr, x) == filter(arr, {i \in DOMAIN arr : arr[i] # x})

\* C7 as stated: for the query "scrape websites" the example agent scores > 0,
\* with a contribution of its tags and a word-level contribution of its best_for
C7_ScrapeExampleScoresByTagAndBestFor ==
  (Answered("yagoo_search") /\ request.params.query = <<"s","c","r","a","p","e"," ","w","e","b","s","i","t","e","s">>) =>
    \A i \in DOMAIN AGENTS :
      ScrapeExample(AGENTS[i]) =>
        LET q == toLowerCase(request.params.query)
            words == queryWords(q)
        IN /\ ScoreOf(i) > 0
           /\ tagSubstringScore(AGENTS[i], q) + tagWordScore(AGENTS[i], words) > 0
           /\ bestForWordScore(AGENTS[i], words) > 0

\* C7, amended: for the query "scrape websites" the tag "web-scraping" adds
\* nothing to the example agent's score, its best_for entry adds exactly 8 (the
\* word "websites") and nothing as a full match, and the score is at least 8
\* less the not_ideal_for penalty, hence > 0 when no not_ideal_for entry has a query word
C7_ScrapeExampleScoresByBestForOnly ==
  (Answered("yagoo_search") /\ request.params.query = <<"s","c","r","a","p","e"," ","w","e","b","s","i","t","e","s">>) =>
    \A i \in DOMAIN AGENTS :
      ScrapeExample(AGENTS[i]) =>
        LET a == AGENTS[i]
            q == toLowerCase(request.params.query)
            words == queryWords(q)
            noTag == [a EXCEPT !.tags = Without(a.tags, <<"w","e","b","-","s","c","r","a","p","i","n","g">>)]
            entries == Len(a.best_for) - Len(Without(a.best_for, <<"s","c","r","a","p","i","n","g"," ","w","e","b","s","i","t","e","s"," ","a","t"," ","s","c","a","l","e">>))
            noEntry == [a EXCEPT !.best_for = Without(a.best_for, <<"s","c","r","a","p","i","n","g"," ","w","e","b","s","i","t","e","s"," ","a","t"," ","s","c","a","l","e">>)]
        IN /\ tagSubstringScore(a, q) = tagSubstringScore(noTag, q)
           /\ tagWordScore(a, words) = tagWordScore(noTag, words)
           /\ bestForWordScore(a, words) = bestForWordScore(noEntry, words) + 8 * entries
           /\ bestForFullScore(a, q) = bestForFullScore(noEntry, q)
           /\ ScoreOf(i) >= 8 - notIdealPenalty(a, words)
           /\ notIdealPenalty(a, words) = 0 =>
                \/ \E k \in DOMAIN results : results[k].agent = a /\ results[k].score >= 8
                \/ Len(results) = GivenLimit
                \/ i \notin PassingNonEmpty

\* the example agent is ranked with a score of exactly 8, while another
\* example agent of the catalog, with not_ideal_for entries about websites, is not ranked
C7_Witness ==
  /\ Answered("yagoo_search")
  /\ request.params.query = <<"s","c","r","a","p","e"," ","w","e","b","s","i","t","e","s">>
  /\ \E k \in DOMAIN results : ScrapeExample(results[k].agent) /\ results[k].score = 8
  /\ \E i \in DOMAIN AGENTS :
       /\ ScrapeExample(AGENTS[i])
       /\ i \in PassingNonEmpty
       /\ ScoreOf(i) <= 0
       /\ \A k \in DOMAIN results : results[k].agent # AGENTS[i]

\* a text of the agent overlaps the query q of words ws: in lower case it contains
\* the query or one of its words, or the query contains it
Overlaps(text, q, ws) ==
  LET t == toLowerCase(text)
  IN \/ includes(t, q)
     \/ includes(q, t)
     \/ \E w \in DOMAIN ws : includes(t, ws[w])

\* no tag, capability, best_for entry or category label of the agent overlaps the query
NoListedOverlap(a, q, ws) ==
  /\ \A k \in DOMAIN a.tags : ~Overlaps(a.tags[k], q, ws)
  /\ \A k \in DOMAIN a.capabilities : ~Overlaps(a.capabilities[k], q, ws)
  /\ \A k \in DOMAIN a.best_for : ~Overlaps(a.best_for[k], q, ws)
  /\ \A k \in DOMAIN labelOf(CATEGORY_LABELS, a.primary_category) :
       ~Overlaps(labelOf(CATEGORY_LABELS, a.primary_category)[k], q, ws)

\* nor does its name or its tagline
NoOverlap(a, q, ws) ==
  /\ NoListedOverlap(a, q, ws)
  /\ ~Overlaps(a.name, q, ws)
  /\ ~Overlaps(a.tagline, q, ws)

\* the agent of catalog position i scores <= 0 and is not ranked
Excluded(i) ==
  /\ ScoreOf(i) <= 0
  /\ \A k \in DOMAIN results : results[k].agent # AGENTS[i]

\* C8 as stated: an agent whose tags, capabilities, best_for entries and
\* category label do not overlap the query scores <= 0 and is not ranked
C8_NoListedOverlapExcluded ==
  Answered("yagoo_search") =>
    LET q == toLowerCase(request.params.query)
        ws == queryWords(q)
    IN \A i \in DOMAIN AGENTS : NoListedOverlap(AGENTS[i], q, ws) => Excluded(i)

\* C8, amended: an agent whose name, tagline, tags, capabilities, best_for
\* entries and category label do not overlap the query scores <= 0 and is not ranked
C8_NoOverlapExcluded ==
  Answered("yagoo_search") =>
    LET q == toLowerCase(request.params.query)
        ws == queryWords(q)
    IN \A i \in DOMAIN AGENTS : NoOverlap(AGENTS[i], q, ws) => Excluded(i)

\* a search that ranks some agent and leaves out one that passes the filters,
\* overlaps the query nowhere and scores 0
C8_Witness ==
  /\ Answered("yagoo_search")
  /\ results # <<>>
  /\ \E i \in PassingNonEmpty :
       /\ NoOverlap(AGENTS[i], toLowerCase(request.params.query),
                    queryWords(toLowerCase(request.params.query)))
       /\ ScoreOf(i) = 0
       /\ \A k \in DOMAIN results : results[k].agent # AGENTS[i]

\* the response to a request issued on the given catalog and label mapping
ResponseTo(req, agents, labels) ==
  CASE req.tool = "yagoo_search" ->
         searchHandler(agents, labels, SearchParsed(req.params)).response
    [] req.tool = "yagoo_get_agent" -> getAgentHandler(agents, labels, req.params)
    [] req.tool = "yagoo_list_categories" -> listCategoriesHandler(agents, labels)
    [] req.tool = "yagoo_compare" -> compareHandler(agents, req.params)
    [] req.tool = "yagoo_list_mcp" -> listMcpHandler(agents)

\* C9: after any sequence of requests the catalog and the label mapping are
\* those loaded at start, and a response is the one the request gets on them
C9_CatalogUnchangedResponsesIndependent ==
  /\ AGENTS = AGENTS0
  /\ CATEGORY_LABELS = LABELS0
  /\ (pc = "responded" /\ response.kind # "invalid_params") =>
       response = ResponseTo(request, AGENTS0, LABELS0)

\* a request answered after an earlier one, by a search that ranks the
\* catalog's agents in another order than the catalog's
C9_Witness ==
  /\ served >= 1
  /\ Answered("yagoo_search")
  /\ \E k \in DOMAIN results : \E l \in DOMAIN results :
       \E i \in DOMAIN AGENTS0 : \E j \in DOMAIN AGENTS0 :
         k < l /\ j < i /\ AGENTS0[i] = results[k].agent /\ AGENTS0[j] = results[l].agent

\* C10: search ranks no more than limit entries and no more than the filtered
\* subset has; it ranks min(limit, number of filtered agents with a score > 0)
C10_RankedCountIsMinOfLimitAndPositive ==
  Answered("yagoo_search") =>
    LET subset == PassingNonEmpty
        positive == Cardinality({i \in subset : ScoreOf(i) > 0})
    IN /\ Len(results) <= GivenLimit
       /\ Len(results) <= Cardinality(subset)
       /\ Len(results) = (IF GivenLimit < positive THEN GivenLimit ELSE positive)

\* a search with more positively scoring agents than its limit of 2 allows
C10_Witness ==
  /\ Answered("yagoo_search")
  /\ GivenLimit = 2
  /\ Cardinality({i \in PassingNonEmpty : ScoreOf(i) > 0}) > 2
  /\ Len(results) = 2

\* the catalog position of an agent (slugs are unique, so there is one)
PositionOf(agent) == CHOOSE i \in DOMAIN AGENTS : AGENTS[i] = agent

\* C11: two ranked agents of the same score are ranked in their catalog order,
\* and an agent that passes the filters with a score > 0 but is cut by the
\* limit comes, in the catalog, after every ranked agent of the same score
C11_TiesKeepCatalogOrder ==
  Answered("yagoo_search") =>
    /\ \A k \in DOMAIN results : \A l \in DOMAIN results :
         (k < l /\ results[k].score = results[l].score) =>
           PositionOf(results[k].agent) < PositionOf(results[l].agent)
    /\ \A i \in PassingNonEmpty :
         (ScoreOf(i) > 0 /\ \A k \in DOMAIN results : results[k].agent # AGENTS[i]) =>
           \A k \in DOMAIN results :
             \/ results[k].score > ScoreOf(i)
             \/ results[k].score = ScoreOf(i) /\ PositionOf(results[k].agent) < i

\* a search whose limit of 1 cuts a pair of agents of the same score: the one
\* ranked is the one that comes first in the catalog
C11_Witness ==
  /\ Answered("yagoo_search")
  /\ GivenLimit = 1
  /\ Len(results) = 1
  /\ \E i \in PassingNonEmpty :
       /\ AGENTS[i] # results[1].agent
       /\ ScoreOf(i) = results[1].score
       /\ PositionOf(results[1].agent) < i

====
